---- MODULE Spec2Model ----
(***************************************************************************)
(* Harbourmaster daemon: the container control plane.                      *)
(*                                                                         *)
(*   DockerService (services/docker.ts)  - per-container lock table,       *)
(*       idempotent lifecycle operations, event streaming                  *)
(*   containerRoutes (routes/containers.ts) - list cache with a 1 s TTL,   *)
(*       lifecycle routes, the /events relay                               *)
(*                                                                         *)
(* Node.js runs one callback to completion, then drains the microtask      *)
(* queue, before the next I/O callback runs.  Each action below is one     *)
(* such run: an incoming request or a runtime response, together with all  *)
(* promise continuations it makes runnable.                                *)
(***************************************************************************)
EXTENDS Integers, Sequences, FiniteSets, TLC

\* ---------------------------------------------------------------- bounds
MaxOps == 3          \* lifecycle requests per run
MaxLists == 3        \* list requests per run
MaxSubs == 2         \* /events clients per run
MaxCacheOps == 1     \* lifecycle requests per run next to list requests
MaxEvents == 2       \* runtime events per run
MaxTime == 1000      \* the clock stops advancing here (ms)
TickStep == 500      \* granularity of the clock (ms)
MaxCallers == 3      \* calls of connect / getClient / healthCheck per run
MaxRouteOps == 1     \* requests per run when the identifier is arbitrary
MaxBeats == 1        \* heartbeats per /events client per run
MaxBindings == 2     \* host bindings of one container port
MaxPorts == 2        \* port entries of one container in a listing
MaxRequestIds == 4   \* distinct request ids
MaxSources == 5      \* EventSources one useContainers hook creates per run

\* ------------------------------------------------------ program constants
CacheTtl == 1000     \* routes/containers.ts:28
IdHexMin == 12       \* CONTAINER_ID_HEX: {12,64}
IdHexMax == 64
NameTailMax == 127   \* CONTAINER_NAME: {0,127} after the first character
HeartbeatMs == 30000 \* routes/containers.ts:348
GracePeriod == 10    \* services/docker.ts: stop({ t: 10 }), restart({ t: 10 })
DefaultPort == 9190  \* config/server.ts:14
ReconnectMs == 5000  \* useContainers: setTimeout(..., 5000)

ContainerIds == {"a", "b"}
Ops == 1..MaxOps
Lists == 1..MaxLists
Subs == 1..MaxSubs
Callers == 1..MaxCallers

OpKinds == {"start", "stop", "restart", "delete"}
RuntimeStates == {"running", "stopped", "absent"}
EventTypes == {"container", "image"}
\* a chunk of the event stream: the JSON of an event of some Type, or bytes
\* JSON.parse rejects
Payloads == EventTypes \cup {"malformed"}
\* connect(), getClient() (the first statement of every other service
\* method) and healthCheck()
CallerKinds == {"connect", "getClient", "healthCheck"}

NoOp == 0
NoCache == [data |-> 0, timestamp |-> 0 - 1]
NoClient == 0

\* An identifier string is described by what the two patterns look at: its
\* length, the class of its first character and the classes of the others.
\*   hex: [0-9a-fA-F]   alnum: [g-zG-Z]   punct: [_.-]   other: anything else
CharClasses == {"hex", "alnum", "punct", "other"}
IdLengths == {12, 64, 65, 128, 129}
TailClasses == {{"hex"}, {"hex", "alnum", "punct"}, {"hex", "other"}}
Shapes ==
  {[len |-> 0, first |-> "none", rest |-> {}]}
    \cup {[len |-> 1, first |-> f, rest |-> {}] : f \in CharClasses}
    \cup {[len |-> n, first |-> f, rest |-> t] :
            n \in IdLengths, f \in CharClasses, t \in TailClasses}

\* the identifiers of the containers of the model are 12-digit short ids
IdShape(id) == [len |-> 12, first |-> "hex", rest |-> {"hex"}]

\* a request parameter: the string, and the container the engine resolves it
\* to ("none": the engine knows no such container)
Named(id) == [shape |-> IdShape(id), target |-> id]
Identifiers == {[shape |-> sh, target |-> "none"] : sh \in Shapes}
                 \cup {Named(i) : i \in ContainerIds}

VARIABLES
  runtime,            \* the container engine: id -> running | stopped | absent
  containerLocks,     \* DockerService.containerLocks: id -> op whose promise is stored, or NoOp
  op,                 \* lifecycle requests: position and locals of each handler
  containerCache,     \* routes/containers.ts containerCache ({data, timestamp} or NoCache)
  cacheInvalidated,   \* routes/containers.ts cacheInvalidated
  now,                \* Date.now()
  nextObj,            \* number of list response objects built so far
  listCalls,          \* number of client.listContainers calls issued so far
  list,               \* list requests: position and locals of each handler
  sub,                \* /events clients: streamEvents closures
  conn,               \* DockerService.docker / connectionPromise and what was run for them
  caller,             \* callers of connect / getClient / healthCheck
  calc,               \* the latest application of a projection / middleware: input and output
  hook,               \* the useContainers hook of the UI: refs, EventSources, timers
  hist                \* observations used by the properties (not program state)

vars == <<runtime, containerLocks, op, containerCache, cacheInvalidated,
          now, nextObj, listCalls, list, sub, conn, caller, calc, hook, hist>>

\* ident is the request parameter, id the container it names; svc counts the
\* DockerService methods the handler has called, calls the mutating runtime
\* calls and grace the `t` option of the latest one (0: none); status and
\* code are the HTTP status and the `code` of the reply
IdleOp == [kind |-> "start", id |-> "a", pc |-> "idle", awaits |-> NoOp, entered |-> FALSE,
           ran |-> FALSE, inspected |-> "none", calls |-> 0, result |-> "none",
           status |-> 0, ident |-> IdShape("a"), svc |-> 0, code |-> "none",
           grace |-> 0]

IdleList == [pc |-> "idle", served |-> "none", resp |-> 0, status |-> 0]

\* delivered counts the calls of the subscriber's callback, skipped the
\* chunks logged and dropped, lastData is the fate of the latest chunk;
\* errors counts the failures handed to the subscriber
\* interval is the period of the heartbeat timer of the connection (0: no
\* timer), beats the heartbeats written; cancelledAt is the number of chunks
\* the engine had emitted when cleanup() was called
IdleSub == [pc |-> "none", cancelled |-> FALSE, stream |-> "null", upstream |-> "none",
            delivered |-> 0, skipped |-> 0, lastData |-> "none", errors |-> 0,
            interval |-> 0, beats |-> 0, cancelledAt |-> 0 - 1]

\* a DockerService just constructed: docker = null, connectionPromise = null;
\* performs counts the runs of performConnection, clients the Docker clients
\* constructed, by is the method whose call started performConnection
\* env is the environment performConnection found, probed the socket paths it
\* tested with fs.access, subprocess the runs of `docker context inspect`,
\* error the message of the rejection
FreshConn == [docker |-> NoClient, connectionPromise |-> "null", performs |-> 0,
              clients |-> 0, by |-> "none",
              env |-> [dockerHost |-> FALSE, sockets |-> {}, context |-> "none"],
              detectedSocket |-> "null", probed |-> <<>>, subprocess |-> 0,
              error |-> "none"]

\* the DockerService after the connect() of start() has returned
StartedConn == [docker |-> 1, connectionPromise |-> "null", performs |-> 1,
                clients |-> 1, by |-> "connect",
                env |-> [dockerHost |-> FALSE, sockets |-> {"/var/run/docker.sock"},
                         context |-> "none"],
                detectedSocket |-> "/var/run/docker.sock", probed |-> <<1>>,
                subprocess |-> 0, error |-> "none"]

\* found is what the call saw on entry, client the client it was given
IdleCaller == [kind |-> "connect", pc |-> "idle", found |-> "none", client |-> NoClient,
               outcome |-> "none"]

NoCalc == [fn |-> "none"]

\* useContainers before its effect has run: no EventSource created,
\* eventSourceRef.current = null, reconnectTimeoutRef.current = undefined.
\* sources lists the EventSources created, open or closed; ref and effect
\* are the ones held by eventSourceRef and by the effect's closure; pending
\* are the EventSources whose error handler has a timer waiting, timerRef
\* the one whose timer reconnectTimeoutRef holds, delay the time it was set
\* for
IdleHook == [pc |-> "init", sources |-> <<>>, ref |-> 0, effect |-> 0, pending |-> {},
             timerRef |-> 0, delay |-> 0, showAll |-> FALSE]

InitHist == [mutatedSince |-> FALSE, eventSince |-> FALSE, events |-> 0]

\* index.ts:29-30 connects the DockerService before the server listens, so
\* every request finds this.docker set.
Init ==
  /\ runtime \in [ContainerIds -> RuntimeStates]
  /\ containerLocks = [i \in ContainerIds |-> NoOp]
  /\ op = [o \in Ops |-> IdleOp]
  /\ containerCache = NoCache
  /\ cacheInvalidated = TRUE
  /\ now = 0
  /\ nextObj = 0
  /\ listCalls = 0
  /\ list = [l \in Lists |-> IdleList]
  /\ sub = [s \in Subs |-> IdleSub]
  /\ conn = StartedConn
  /\ caller = [c \in Callers |-> IdleCaller]
  /\ calc = NoCalc
  /\ hook = IdleHook
  /\ hist = InitHist

\* the same, with one running and one stopped container
InitCache == Init /\ runtime = [i \in ContainerIds |-> IF i = "a" THEN "running" ELSE "stopped"]

\* the DockerService right after construction (getInstance), nothing connected
InitConnect ==
  /\ runtime = [i \in ContainerIds |-> IF i = "a" THEN "running" ELSE "stopped"]
  /\ containerLocks = [i \in ContainerIds |-> NoOp]
  /\ op = [o \in Ops |-> IdleOp]
  /\ containerCache = NoCache
  /\ cacheInvalidated = TRUE
  /\ now = 0
  /\ nextObj = 0
  /\ listCalls = 0
  /\ list = [l \in Lists |-> IdleList]
  /\ sub = [s \in Subs |-> IdleSub]
  /\ conn = FreshConn
  /\ caller = [c \in Callers |-> IdleCaller]
  /\ calc = NoCalc
  /\ hook = IdleHook
  /\ hist = InitHist

\* ------------------------------------------------------------ validation
\* (variant: {12,} instead of {12,64})
CONTAINER_ID_HEX_Unbounded(x) ==
  x.len >= IdHexMin /\ x.first = "hex" /\ x.rest \subseteq {"hex"}

\* /^[a-f0-9]{12,64}$/i
CONTAINER_ID_HEX(x) ==
  x.len >= IdHexMin /\ x.len <= IdHexMax /\ x.first = "hex" /\ x.rest \subseteq {"hex"}

\* (variant: the first character is not anchored to [a-zA-Z0-9])
CONTAINER_NAME_Unanchored(x) ==
  /\ x.len >= 1 /\ x.len - 1 <= NameTailMax
  /\ x.first \in {"hex", "alnum", "punct"}
  /\ x.rest \subseteq {"hex", "alnum", "punct"}

\* /^[a-zA-Z0-9][a-zA-Z0-9_.-]{0,127}$/
CONTAINER_NAME(x) ==
  /\ x.len >= 1 /\ x.len - 1 <= NameTailMax
  /\ x.first \in {"hex", "alnum"}
  /\ x.rest \subseteq {"hex", "alnum", "punct"}

isValidContainerIdentifier(x) == CONTAINER_ID_HEX(x) \/ CONTAINER_NAME(x)

\* -------------------------------------------------------- ErrorNormalizer
\* The errors the routes catch, as what normalize() looks at: statusCode,
\* code, and which of the phrases it searches the lower-cased message holds.
\*   notFound             new Error('Container not found')       (service)
\*   cannotDeleteRunning  new Error('Cannot delete running container')
\*   raw404               dockerode: (HTTP code 404) no such container
\*   runtimeError         dockerode: any other engine failure
ErrorOf(res) ==
  IF res = "notFound" THEN [statusCode |-> 0, code |-> "none", message |-> {"not found"}]
  ELSE IF res = "raw404" THEN [statusCode |-> 404, code |-> "none", message |-> {}]
  ELSE IF res = "cannotDeleteRunning" THEN [statusCode |-> 0, code |-> "none", message |-> {}]
  ELSE [statusCode |-> 500, code |-> "none", message |-> {}]

\* ErrorNormalizer.normalize(error).code
NormalizeCode(e) ==
  IF e.statusCode = 404 \/ "not found" \in e.message THEN "CONTAINER_NOT_FOUND"
  ELSE IF e.statusCode = 409
          /\ ("already started" \in e.message \/ "already running" \in e.message)
       THEN "ALREADY_RUNNING"
  ELSE IF e.statusCode = 409
          /\ ("not running" \in e.message \/ "already stopped" \in e.message)
       THEN "ALREADY_STOPPED"
  ELSE IF e.code = "EACCES" \/ e.statusCode = 403 THEN "PERMISSION_DENIED"
  ELSE IF e.code = "ENOENT" \/ "cannot connect" \in e.message THEN "DOCKER_UNAVAILABLE"
  ELSE IF "invalid password" \in e.message THEN "AUTHENTICATION_REQUIRED"
  ELSE "UNKNOWN_ERROR"

\* ------------------------------------------------------- DockerService
\* (variant: cleanup in .then(), which a rejection skips)
ReleaseLockOnSuccessOnly(locks, id, res) ==
  IF res = "ok" THEN [locks EXCEPT ![id] = NoOp] ELSE locks

\* the .finally() callback of withContainerLock: containerLocks.delete(id),
\* whatever the outcome res of the operation
ReleaseLock(locks, id, res) == [locks EXCEPT ![id] = NoOp]

\* (variant: one lock for all identifiers)
SetLockGlobal(locks, id, o) == [i \in DOMAIN locks |-> o]

\* containerLocks.set(id, promise)
SetLock(locks, id, o) == [locks EXCEPT ![id] = o]

\* (variant: only the first caller suspended on a promise is resumed)
WaitersFirstOnly(o) ==
  {w \in Ops : /\ op[w].pc = "waiting" /\ op[w].awaits = o
               /\ \A v \in Ops : (op[v].pc = "waiting" /\ op[v].awaits = o) => w <= v}

\* callers suspended in `await existing` on the promise of operation o
Waiters(o) == {w \in Ops : op[w].pc = "waiting" /\ op[w].awaits = o}

\* reactions of one promise run in registration order; each resumed caller
\* overwrites the entry, so the entry left is the one of the last caller
LastWaiter(W) == CHOOSE w \in W : \A v \in W : v <= w

\* the body of startContainer / stopContainer / deleteContainer runs up to
\* container.inspect(); the body of restartContainer up to container.restart()
StartBody(r) ==
  [r EXCEPT !.ran = TRUE,
            !.pc = IF r.kind = "restart" THEN "call" ELSE "inspect",
            !.calls = IF r.kind = "restart" THEN 1 ELSE 0,
            !.grace = IF r.kind = "restart" THEN GracePeriod ELSE 0]

\* the catch block of every lifecycle route answers 500
RouteStatus(res) == IF res = "ok" THEN 200 ELSE 500

\* ... with the code of the normalized error
RouteCode(res) == IF res = "ok" THEN "none" ELSE NormalizeCode(ErrorOf(res))

\* container.inspect() / the engine's lookup of an identifier
Lookup(id) == IF id \in ContainerIds THEN runtime[id] ELSE "absent"

\* (variants: the state check is missing)
StartSkipsNever(st) == FALSE
DeleteRefusesNever(st) == FALSE

\* startContainer: `if (info.State.Running) return`
StartSkips(st) == st = "running"
\* (variant: stopContainer without its state check)
StopSkipsNever(st) == FALSE
\* stopContainer: `if (!info.State.Running) return`
StopSkips(st) == st # "running"
\* deleteContainer: `if (info.State.Running) throw`
DeleteRefuses(st) == st = "running"

\* The operation of o settles with res (rec is o's record at that moment):
\* the finally callback deletes the entry of the identifier, o's caller gets
\* res (the route sets cacheInvalidated on success), and every caller
\* suspended on o's promise resumes: on fulfilment it calls its operation and
\* stores its promise, on rejection the `await existing` throws o's error.
Settle(o, rec, res) ==
  LET id == rec.id
      W == Waiters(o)
      released == ReleaseLock(containerLocks, id, res)
  IN /\ op' = [w \in Ops |->
                 IF w = o THEN [rec EXCEPT !.pc = "done", !.result = res,
                                           !.status = RouteStatus(res),
                                           !.code = RouteCode(res)]
                 ELSE IF w \in W
                      THEN IF res = "ok" THEN StartBody(op[w])
                           ELSE [op[w] EXCEPT !.pc = "done", !.result = res,
                                              !.status = RouteStatus(res),
                                              !.code = RouteCode(res)]
                      ELSE op[w]]
     /\ containerLocks' = IF res = "ok" /\ W # {}
                          THEN SetLock(released, id, LastWaiter(W))
                          ELSE released
     /\ cacheInvalidated' = IF res = "ok" THEN TRUE ELSE cacheInvalidated
     /\ hist' = IF res = "ok"
                THEN [hist EXCEPT !.mutatedSince = TRUE]
                ELSE hist

\* POST /containers/:id/{start,stop,restart}, DELETE /containers/:id with
\* the identifier x.  An identifier that fails isValidContainerIdentifier is
\* answered 400 at once.  Otherwise the handler suspends once, in
\* `await docker.validateContainer(id)`, before it touches any shared state;
\* the action is taken when that probe answers: the handler answers 404, or
\* calls the service method, which enters withContainerLock.  Requests take
\* the slots in the order in which they reach withContainerLock, so the slot
\* number is the call order.
RequestOp(o, kind, x) ==
  /\ op[o].pc = "idle"
  /\ IF o = 1 THEN TRUE ELSE op[o - 1].pc # "idle"
  /\ LET id == x.target
         existing == containerLocks[id]
         rec == [IdleOp EXCEPT !.kind = kind, !.id = id, !.ident = x.shape]
     IN IF ~isValidContainerIdentifier(x.shape)
        THEN /\ op' = [op EXCEPT ![o] = [rec EXCEPT !.pc = "done",
                                                    !.result = "invalidInput",
                                                    !.status = 400,
                                                    !.code = "INVALID_INPUT"]]
             /\ UNCHANGED containerLocks
        ELSE IF Lookup(id) = "absent"
        THEN /\ op' = [op EXCEPT ![o] = [rec EXCEPT !.pc = "done", !.result = "notFound",
                                                    !.status = 404, !.svc = 1,
                                                    !.code = "CONTAINER_NOT_FOUND"]]
             /\ UNCHANGED containerLocks
        ELSE IF existing # NoOp
             THEN /\ op' = [op EXCEPT ![o] = [rec EXCEPT !.entered = TRUE,
                                                         !.pc = "waiting",
                                                         !.awaits = existing,
                                                         !.svc = 2]]
                  /\ UNCHANGED containerLocks
             ELSE /\ op' = [op EXCEPT ![o] = StartBody([rec EXCEPT !.entered = TRUE,
                                                                   !.svc = 2])]
                  /\ containerLocks' = SetLock(containerLocks, id, o)
  /\ UNCHANGED <<conn, caller, calc, hook>>
  /\ UNCHANGED <<runtime, containerCache, cacheInvalidated, now, nextObj, listCalls,
                 list, sub, hist>>

\* container.inspect() inside the locked operation answers
InspectReturn(o) ==
  /\ op[o].pc = "inspect"
  /\ LET st == runtime[op[o].id]
         k == op[o].kind
         rec == [op[o] EXCEPT !.inspected = st]
     IN IF st = "absent"
        THEN Settle(o, rec, "notFound")
        ELSE IF k = "start" /\ StartSkips(st) THEN Settle(o, rec, "ok")
        ELSE IF k = "stop" /\ StopSkips(st) THEN Settle(o, rec, "ok")
        ELSE IF k = "delete" /\ DeleteRefuses(st) THEN Settle(o, rec, "cannotDeleteRunning")
        ELSE /\ op' = [op EXCEPT ![o] = [rec EXCEPT !.pc = "call", !.calls = 1,
                                                    !.grace = IF k = "stop" THEN GracePeriod
                                                              ELSE 0]]
             /\ UNCHANGED <<containerLocks, cacheInvalidated, hist>>
  /\ UNCHANGED <<conn, caller, calc, hook>>
  /\ UNCHANGED <<runtime, containerCache, now, nextObj, listCalls, list, sub>>

\* what the engine answers to a mutating call and the state it leaves
CallOutcome(k, st) ==
  IF st = "absent" THEN IF k \in {"restart", "delete"} THEN "notFound" ELSE "raw404"
  ELSE IF k = "start" THEN IF st = "stopped" THEN "ok" ELSE "runtimeError"
  ELSE IF k = "stop" THEN IF st = "running" THEN "ok" ELSE "runtimeError"
  ELSE IF k = "delete" THEN IF st = "stopped" THEN "ok" ELSE "runtimeError"
  ELSE "ok"

CallEffect(k, st) ==
  IF k = "start" \/ k = "restart" THEN "running"
  ELSE IF k = "stop" THEN "stopped"
  ELSE "absent"

\* container.start() / stop({t:10}) / restart({t:10}) / remove({v:true}) answers;
\* fail is an engine-side failure (a raw dockerode error)
CallReturn(o, fail) ==
  /\ op[o].pc = "call"
  /\ LET id == op[o].id
         k == op[o].kind
         out == IF fail THEN "runtimeError" ELSE CallOutcome(k, runtime[id])
     IN /\ runtime' = IF out = "ok" THEN [runtime EXCEPT ![id] = CallEffect(k, @)]
                      ELSE runtime
        /\ Settle(o, op[o], out)
  /\ UNCHANGED <<conn, caller, calc, hook>>
  /\ UNCHANGED <<containerCache, now, nextObj, listCalls, list, sub>>

\* (variant: the catch block of getContainer returns null for every error)
GetContainerSwallows(ans) ==
  IF ans \in {"absent", "error"} THEN "null" ELSE "container"

\* getContainer: what the method returns or throws when container.inspect()
\* answers ans: the state of the container, "absent" (404) or "error"
GetContainerResult(ans) ==
  IF ans = "absent" THEN "null"
  ELSE IF ans = "error" THEN "runtimeError"
  ELSE "container"

\* GET /containers/:id with the identifier x: 400 for an identifier that
\* fails isValidContainerIdentifier, otherwise docker.getContainer(id) runs
\* up to `await container.inspect()`
RequestInspect(o, x) ==
  /\ op[o].pc = "idle"
  /\ IF o = 1 THEN TRUE ELSE op[o - 1].pc # "idle"
  /\ LET rec == [IdleOp EXCEPT !.kind = "inspect", !.id = x.target, !.ident = x.shape]
     IN op' = [op EXCEPT ![o] =
          IF ~isValidContainerIdentifier(x.shape)
          THEN [rec EXCEPT !.pc = "done", !.result = "invalidInput", !.status = 400,
                           !.code = "INVALID_INPUT"]
          ELSE [rec EXCEPT !.pc = "get", !.svc = 1]]
  /\ UNCHANGED <<conn, caller, calc, hook>>
  /\ UNCHANGED <<runtime, containerLocks, containerCache, cacheInvalidated, now, nextObj,
                 listCalls, list, sub, hist>>

\* container.inspect() of getContainer answers (fail: an engine failure other
\* than 404); the route answers 200 with the container, 404 for null, and
\* 500 with the normalized error for a throw
GetContainerReturn(o, fail) ==
  /\ op[o].pc = "get"
  /\ LET ans == IF fail THEN "error" ELSE Lookup(op[o].id)
         res == GetContainerResult(ans)
     IN op' = [op EXCEPT ![o] =
          [@ EXCEPT !.pc = "done", !.inspected = ans, !.result = res,
                    !.status = IF res = "container" THEN 200
                               ELSE IF res = "null" THEN 404 ELSE 500,
                    !.code = IF res = "container" THEN "none"
                             ELSE IF res = "null" THEN "CONTAINER_NOT_FOUND"
                             ELSE NormalizeCode(ErrorOf(res))]]
  /\ UNCHANGED <<conn, caller, calc, hook>>
  /\ UNCHANGED <<runtime, containerLocks, containerCache, cacheInvalidated, now, nextObj,
                 listCalls, list, sub, hist>>

\* -------------------------------------------- DockerService: connection
\* (variant: the `if (this.connectionPromise)` line is missing)
ShouldPerformUnshared(docker, promise) == docker = NoClient

\* connect(): performConnection is called when neither `this.docker` nor
\* `this.connectionPromise` is set
ShouldPerform(docker, promise) == docker = NoClient /\ promise = "null"

\* (variant: a catch block clears connectionPromise)
AfterRejectionCleared(promise) == "null"

\* connect(): `this.docker = await this.connectionPromise` throws on a
\* rejection, so `this.connectionPromise = null` is not reached
AfterRejection(promise) == promise

\* what a caller that obtained client cl goes on with: connect / getClient
\* return it, healthCheck issues client.ping()
GotClient(r, cl) ==
  IF r.kind = "healthCheck"
  THEN [r EXCEPT !.pc = "ping", !.client = cl]
  ELSE [r EXCEPT !.pc = "done", !.client = cl, !.outcome = "client"]

\* what a caller whose connect() rejected ends with: connect / getClient
\* throw, the catch block of healthCheck returns false
GotError(r) ==
  [r EXCEPT !.pc = "done", !.outcome = IF r.kind = "healthCheck" THEN "false" ELSE "error"]

\* connect(), called directly or through getClient() / healthCheck()
Connect(c, kind) ==
  /\ caller[c].pc = "idle"
  /\ IF c = 1 THEN TRUE ELSE caller[c - 1].pc # "idle"
  /\ LET rec == [IdleCaller EXCEPT !.kind = kind,
                    !.found = IF conn.docker # NoClient THEN "client"
                              ELSE conn.connectionPromise]
     IN IF conn.docker # NoClient
        THEN /\ caller' = [caller EXCEPT ![c] = GotClient(rec, conn.docker)]
             /\ UNCHANGED conn
        ELSE IF ShouldPerform(conn.docker, conn.connectionPromise)
        THEN /\ conn' = [conn EXCEPT !.connectionPromise = "pending",
                                     !.performs = @ + 1,
                                     !.by = IF @ = "none" THEN kind ELSE @]
             /\ caller' = [caller EXCEPT ![c] = [rec EXCEPT !.pc = "await"]]
        ELSE IF conn.connectionPromise = "rejected"
        THEN /\ caller' = [caller EXCEPT ![c] = GotError(rec)]
             /\ UNCHANGED conn
        ELSE /\ caller' = [caller EXCEPT ![c] = [rec EXCEPT !.pc = "await"]]
             /\ UNCHANGED conn
  /\ UNCHANGED <<calc, hook>>
  /\ UNCHANGED <<runtime, containerLocks, op, containerCache, cacheInvalidated, now,
                 nextObj, listCalls, list, sub, hist>>

\* performConnection: the socket paths, in the order of the array
SocketPaths == <<"/var/run/docker.sock", "/run/user/1000/docker.sock",
                 "$HOME/.docker/run/docker.sock", "$HOME/.colima/default/docker.sock",
                 "$HOME/.colima/docker.sock">>

\* what `docker context inspect` gives: execSync throws, output JSON.parse
\* rejects, no Endpoints.docker.Host, a unix:// endpoint, a tcp:// endpoint,
\* an endpoint new URL() rejects
ContextOutcomes == {"fails", "unparsable", "noEndpoint", "unix", "tcp", "badUrl"}

\* the environment of the process: DOCKER_HOST set or not, the socket paths
\* that exist, the answer of the subprocess
Envs == [dockerHost : BOOLEAN,
         sockets : SUBSET {SocketPaths[i] : i \in 1..Len(SocketPaths)},
         context : ContextOutcomes]

\* the environments with at most the default socket: every way
\* performConnection can end (override, socket, subprocess, error) is there
ConnectEnvs == {env \in Envs : env.sockets \subseteq {SocketPaths[1]}}

SocketNotFound ==
  "Docker socket not found. Is Docker running? Try: docker info Or set DOCKER_HOST environment variable"

\* (variant: the DOCKER_HOST branch is missing)
UsesOverrideNever(env) == FALSE

\* `if (process.env.DOCKER_HOST)`
UsesOverride(env) == env.dockerHost

\* (variant: the existence check always succeeds)
socketExistsAlways(path, env) == TRUE

\* socketExists: fs.access(path) succeeds
socketExists(path, env) == path \in env.sockets

\* the for loop over socketPaths from index i on: the index of the first
\* path that exists, 0 when the loop ends without one
RECURSIVE ProbeFrom(_, _)
ProbeFrom(i, env) ==
  IF i > Len(SocketPaths) THEN 0
  ELSE IF socketExists(SocketPaths[i], env) THEN i
  ELSE ProbeFrom(i + 1, env)

\* performConnection in the environment env
Resolve(env) ==
  LET k == ProbeFrom(1, env)
      none == [ok |-> FALSE, detectedSocket |-> "null", probed |-> <<>>,
               subprocess |-> 0, error |-> "none"]
  IN IF UsesOverride(env)
     THEN [none EXCEPT !.ok = TRUE, !.detectedSocket = "DOCKER_HOST"]
     ELSE IF k # 0
     THEN [none EXCEPT !.ok = TRUE, !.detectedSocket = SocketPaths[k],
                       !.probed = [i \in 1..k |-> i]]
     ELSE LET tried == [none EXCEPT !.probed = [i \in 1..Len(SocketPaths) |-> i],
                                    !.subprocess = 1]
          IN IF env.context = "unix"
             THEN [tried EXCEPT !.ok = TRUE, !.detectedSocket = "/custom/docker.sock"]
             ELSE IF env.context = "tcp" THEN [tried EXCEPT !.ok = TRUE]
             ELSE [tried EXCEPT !.error = SocketNotFound]

\* performConnection settles in the environment env: with a new Docker
\* client, or with the error of the chain.  The caller that started it
\* stores the client and clears connectionPromise; every caller holding the
\* promise gets the same result.
PerformConnectionReturn(env) ==
  /\ conn.connectionPromise = "pending"
  /\ LET r == Resolve(env)
         found == [conn EXCEPT !.env = env, !.detectedSocket = r.detectedSocket,
                               !.probed = r.probed, !.subprocess = r.subprocess,
                               !.error = r.error]
     IN IF r.ok
        THEN /\ conn' = [found EXCEPT !.docker = conn.clients + 1, !.clients = @ + 1,
                                      !.connectionPromise = "null"]
             /\ caller' = [c \in Callers |->
                             IF caller[c].pc = "await"
                             THEN GotClient(caller[c], conn.clients + 1)
                             ELSE caller[c]]
        ELSE /\ conn' = [found EXCEPT !.connectionPromise = AfterRejection("rejected")]
             /\ caller' = [c \in Callers |->
                             IF caller[c].pc = "await" THEN GotError(caller[c])
                             ELSE caller[c]]
  /\ UNCHANGED <<calc, hook>>
  /\ UNCHANGED <<runtime, containerLocks, op, containerCache, cacheInvalidated, now,
                 nextObj, listCalls, list, sub, hist>>

\* client.ping() of healthCheck answers
PingReturn(c, ok) ==
  /\ caller[c].pc = "ping"
  /\ caller' = [caller EXCEPT ![c] = [@ EXCEPT !.pc = "done",
                                               !.outcome = IF ok THEN "true" ELSE "false"]]
  /\ UNCHANGED <<calc, hook>>
  /\ UNCHANGED <<runtime, containerLocks, op, containerCache, cacheInvalidated, now,
                 nextObj, listCalls, list, sub, conn, hist>>

\* ------------------------------------------------------ containerRoutes
\* (variant: the age of the entry is not looked at)
CacheHitNoTtl(inv, cache, t) == ~inv /\ cache # NoCache

\* GET /containers:
\*   !cacheInvalidated && containerCache && Date.now() - containerCache.timestamp < 1000
CacheHit(inv, cache, t) == ~inv /\ cache # NoCache /\ t - cache.timestamp < CacheTtl

\* GET /containers: the handler answers from the cache (the stored response
\* object itself), or runs up to `await docker.listContainers()`
\* (client.listContainers is issued)
ListStart(l) ==
  /\ list[l].pc = "idle"
  /\ IF l = 1 THEN TRUE ELSE list[l - 1].pc # "idle"
  /\ IF CacheHit(cacheInvalidated, containerCache, now)
     THEN /\ list' = [list EXCEPT ![l] = [@ EXCEPT !.pc = "done", !.served = "cache",
                                                   !.resp = containerCache.data,
                                                   !.status = 200]]
          /\ UNCHANGED listCalls
     ELSE /\ list' = [list EXCEPT ![l] = [@ EXCEPT !.pc = "listing", !.served = "runtime"]]
          /\ listCalls' = listCalls + 1
  /\ hist' = [hist EXCEPT !.mutatedSince = FALSE, !.eventSince = FALSE]
  /\ UNCHANGED <<conn, caller, calc, hook>>
  /\ UNCHANGED <<runtime, containerLocks, op, containerCache, cacheInvalidated, now,
                 nextObj, sub>>

\* (variant: the catch block answers with the cached response if there is one)
ListFailedServesCache(r, cache) ==
  IF cache = NoCache THEN [r EXCEPT !.pc = "done", !.status = 500]
  ELSE [r EXCEPT !.pc = "done", !.status = 200, !.resp = cache.data]

\* GET /containers, catch block: reply.code(500) with the normalized error
ListFailed(r, cache) == [r EXCEPT !.pc = "done", !.status = 500]

\* client.listContainers answers: the handler builds the response object,
\* stores it with Date.now() and clears cacheInvalidated; on a failure the
\* catch block answers 500 and leaves the cache alone
ListReturn(l, fail) ==
  /\ list[l].pc = "listing"
  /\ IF fail
     THEN /\ list' = [list EXCEPT ![l] = ListFailed(@, containerCache)]
          /\ UNCHANGED <<containerCache, cacheInvalidated, nextObj>>
     ELSE /\ nextObj' = nextObj + 1
          /\ containerCache' = [data |-> nextObj + 1, timestamp |-> now]
          /\ cacheInvalidated' = FALSE
          /\ list' = [list EXCEPT ![l] = [@ EXCEPT !.pc = "done", !.resp = nextObj + 1,
                                                   !.status = 200]]
  /\ UNCHANGED <<conn, caller, calc, hook>>
  /\ UNCHANGED <<runtime, containerLocks, op, now, listCalls, sub, hist>>

\* time passes
Tick ==
  /\ now < MaxTime
  /\ now' = now + TickStep
  /\ UNCHANGED <<conn, caller, calc, hook>>
  /\ UNCHANGED <<runtime, containerLocks, op, containerCache, cacheInvalidated,
                 nextObj, listCalls, list, sub, hist>>

\* GET /events: docker.streamEvents(callback) calls getClient() and returns
\* the cleanup function; the handler starts the heartbeat timer and registers
\* the 'close' handler
Subscribe(s) ==
  /\ sub[s].pc = "none"
  /\ IF s = 1 THEN TRUE ELSE sub[s - 1].pc # "none"
  /\ sub' = [sub EXCEPT ![s] = [@ EXCEPT !.pc = "connecting", !.interval = HeartbeatMs]]
  /\ UNCHANGED <<conn, caller, calc, hook>>
  /\ UNCHANGED <<runtime, containerLocks, op, containerCache, cacheInvalidated, now,
                 nextObj, listCalls, list, hist>>

\* the .then() callback of getClient(): `if (cancelled) return`, otherwise
\* client.getEvents is issued
ClientResolved(s) ==
  /\ sub[s].pc \in {"connecting", "aborting"}
  /\ sub' = [sub EXCEPT ![s] = [@ EXCEPT !.pc = IF sub[s].cancelled THEN "closed"
                                                ELSE "opening"]]
  /\ UNCHANGED <<conn, caller, calc, hook>>
  /\ UNCHANGED <<runtime, containerLocks, op, containerCache, cacheInvalidated, now,
                 nextObj, listCalls, list, hist>>

\* (variant: the getEvents callback does not look at cancelled)
KeepsStreamIgnoringCancel(err, cancelled) == ~err

\* the getEvents callback: `if (err || cancelled || !eventStream) return`
KeepsStream(err, cancelled) == ~err /\ ~cancelled

\* the getEvents callback: the stream is kept and the data / error handlers
\* are attached, or the callback returns.  Without err the engine has opened
\* a stream, kept or not.
StreamOpened(s, err) ==
  /\ sub[s].pc \in {"opening", "closing"}
  /\ sub' = [sub EXCEPT ![s] =
       IF KeepsStream(err, sub[s].cancelled)
       THEN [@ EXCEPT !.pc = IF sub[s].cancelled THEN "closed" ELSE "open",
                      !.stream = "open", !.upstream = "open"]
       ELSE IF err THEN [@ EXCEPT !.pc = IF @ = "closing" THEN "closed" ELSE "failed"]
       ELSE [@ EXCEPT !.pc = "closed", !.upstream = "open"]]
  /\ UNCHANGED <<conn, caller, calc, hook>>
  /\ UNCHANGED <<runtime, containerLocks, op, containerCache, cacheInvalidated, now,
                 nextObj, listCalls, list, hist>>

\* (variant: the 'close' handler does not clear the timer)
ClearIntervalMissing(interval) == interval

\* clearInterval(heartbeat)
ClearInterval(interval) == 0

\* request.raw.on('close'): clearInterval(heartbeat); cleanup() sets
\* cancelled and destroys the stream if there is one
CloseSub(s) ==
  /\ sub[s].pc \in {"connecting", "opening", "open", "failed"}
  /\ sub' = [sub EXCEPT ![s] =
       IF sub[s].stream \in {"open", "errored"}
       THEN [@ EXCEPT !.pc = "closed", !.cancelled = TRUE, !.stream = "destroyed",
                      !.upstream = "destroyed", !.cancelledAt = hist.events,
                      !.interval = ClearInterval(@)]
       ELSE [@ EXCEPT !.pc = IF @ = "connecting" THEN "aborting"
                             ELSE IF @ = "opening" THEN "closing" ELSE "closed",
                      !.cancelled = TRUE, !.cancelledAt = hist.events,
                      !.interval = ClearInterval(@)]]
  /\ UNCHANGED <<conn, caller, calc, hook>>
  /\ UNCHANGED <<runtime, containerLocks, op, containerCache, cacheInvalidated, now,
                 nextObj, listCalls, list, hist>>

\* the heartbeat timer of a connection fires: reply.raw.write(': heartbeat')
Heartbeat(s) ==
  /\ sub[s].interval # 0
  /\ sub[s].beats < MaxBeats
  /\ sub' = [sub EXCEPT ![s] = [@ EXCEPT !.beats = @ + 1]]
  /\ UNCHANGED <<conn, caller, calc, hook>>
  /\ UNCHANGED <<runtime, containerLocks, op, containerCache, cacheInvalidated, now,
                 nextObj, listCalls, list, hist>>

\* subscriptions whose 'data' handler the engine's event reaches
Listening == {s \in Subs : sub[s].stream = "open"}

\* (variant: no try / catch around JSON.parse, the exception ends the relay)
OnDataUncaught(r, payload) ==
  IF payload = "malformed"
  THEN [r EXCEPT !.pc = "failed", !.stream = "destroyed", !.upstream = "destroyed"]
  ELSE [r EXCEPT !.delivered = @ + 1, !.lastData = "event"]

\* stream.on('data'): try { callback(JSON.parse(chunk)) } catch { log }
OnData(r, payload) ==
  IF payload = "malformed"
  THEN [r EXCEPT !.skipped = @ + 1, !.lastData = "skipped"]
  ELSE [r EXCEPT !.delivered = @ + 1, !.lastData = "event"]

\* the engine emits a chunk; every kept stream's 'data' handler parses it
\* and calls the route's callback, which writes the event to the client and
\* sets cacheInvalidated when event.Type === 'container'
RuntimeEvent(type) ==
  /\ hist.events < MaxEvents
  /\ sub' = [s \in Subs |-> IF s \in Listening THEN OnData(sub[s], type) ELSE sub[s]]
  /\ cacheInvalidated' = IF type = "container" /\ Listening # {}
                         THEN TRUE ELSE cacheInvalidated
  /\ hist' = [hist EXCEPT !.events = @ + 1,
                          !.eventSince = IF type = "container" THEN TRUE ELSE @]
  /\ UNCHANGED <<conn, caller, calc, hook>>
  /\ UNCHANGED <<runtime, containerLocks, op, containerCache, now, nextObj, listCalls,
                 list>>

\* stream.on('error'): logger.error and nothing else; the errored stream
\* emits no more data.  The subscriber's callback is not called and
\* getEvents is not called again.
StreamError(s) ==
  /\ sub[s].stream = "open"
  /\ sub' = [sub EXCEPT ![s] = [@ EXCEPT !.pc = "failed", !.stream = "errored",
                                         !.upstream = "closed"]]
  /\ UNCHANGED <<conn, caller, calc, hook>>
  /\ UNCHANGED <<runtime, containerLocks, op, containerCache, cacheInvalidated, now,
                 nextObj, listCalls, list, hist>>

\* --------------------------------------------------------- projections
\* Container['state'] (shared/types.ts:9)
ContainerStates == {"running", "exited", "paused", "restarting", "dead"}

\* A raw state is a word in some letter case, or missing (undefined / '').
\* The engine also reports states outside Container['state'].
RawStateWords == ContainerStates \cup {"created", "removing"}
MissingState == [word |-> "", upper |-> FALSE]
RawStates == {[word |-> w, upper |-> u] : w \in RawStateWords, u \in BOOLEAN}
               \cup {MissingState}
LowerCase(st) == [st EXCEPT !.upper = FALSE]

\* A raw name: the engine prefixes the assigned name with '/'
RawNames == {[slash |-> sl, base |-> "web-1"] : sl \in BOOLEAN}
\* n.replace(/^\//, '')
StripSlash(n) == [n EXCEPT !.slash = FALSE]

\* host ports: a number, null, or undefined (the property is absent)
Undefined == 0 - 1
Null == 0
HostPorts == {8080}

\* an entry of c.Ports of client.listContainers
ListPorts == [PrivatePort : {80}, PublicPort : HostPorts \cup {Undefined},
              Type : {"tcp", "udp"}]

SeqsUpTo(S, n) == UNION {[1..k -> S] : k \in 0..n}

\* a ContainerInfo of client.listContainers; Names and Ports may be missing
RawListEntries ==
  [Names : [present : BOOLEAN, items : SeqsUpTo(RawNames, 1)] ,
   State : RawStates,
   Ports : [present : BOOLEAN, items : SeqsUpTo(ListPorts, MaxPorts)]]

\* listContainers: the record built for one ContainerInfo c
Project(c) ==
  [names |-> IF c.Names.present
             THEN [i \in 1..Len(c.Names.items) |-> StripSlash(c.Names.items[i])]
             ELSE <<>>,
   state |-> IF c.State # MissingState THEN LowerCase(c.State)
             ELSE [word |-> "unknown", upper |-> FALSE],
   ports |-> IF c.Ports.present
             THEN [i \in 1..Len(c.Ports.items) |->
                     [private |-> c.Ports.items[i].PrivatePort,
                      public |-> c.Ports.items[i].PublicPort,
                      type |-> c.Ports.items[i].Type]]
             ELSE <<>>]

\* info.NetworkSettings.Ports of container.inspect(): container port ->
\* null or an array of bindings; HostPort is a string, possibly empty (0)
PortKeys == <<[port |-> 80, proto |-> "tcp"], [port |-> 53, proto |-> "udp"]>>
Bindings == [HostPort : HostPorts \cup {0}, HostIp : {"127.0.0.1"}]
BindingValues ==
  {[kind |-> "absent", items |-> <<>>], [kind |-> "null", items |-> <<>>]}
    \cup {[kind |-> "array", items |-> b] : b \in SeqsUpTo(Bindings, MaxBindings)}

\* the result of container.inspect()
RawInspects ==
  [Name : RawNames, Status : RawStates,
   Ports : [present : BOOLEAN, of : [1..Len(PortKeys) -> BindingValues]]]

\* getContainer: the entries pushed for one container port
EntryPorts(key, b) ==
  IF b.kind = "array" /\ Len(b.items) > 0
  THEN [i \in 1..Len(b.items) |->
          [private |-> key.port,
           public |-> IF b.items[i].HostPort # 0 THEN b.items[i].HostPort ELSE Null,
           type |-> key.proto,
           host |-> b.items[i].HostIp]]
  ELSE <<>>

\* Object.entries(info.NetworkSettings.Ports).forEach(...), from key k on
RECURSIVE FlattenPorts(_, _)
FlattenPorts(of, k) ==
  IF k > Len(PortKeys) THEN <<>>
  ELSE EntryPorts(PortKeys[k], of[k]) \o FlattenPorts(of, k + 1)

\* getContainer: the record built from info
ProjectDetailed(info) ==
  [names |-> <<info.Name>>,
   state |-> info.Status,
   ports |-> IF info.Ports.present THEN FlattenPorts(info.Ports.of, 1) ELSE <<>>]

\* listContainers maps one entry of the engine's listing
ProjectList(c) ==
  /\ calc = NoCalc
  /\ calc' = [fn |-> "list", in |-> c, out |-> Project(c)]
  /\ UNCHANGED <<runtime, containerLocks, op, containerCache, cacheInvalidated, now,
                 nextObj, listCalls, list, sub, conn, caller, hook, hist>>

\* getContainer maps the engine's answer to inspect
ProjectInspect(info) ==
  /\ calc = NoCalc
  /\ calc' = [fn |-> "inspect", in |-> info, out |-> ProjectDetailed(info)]
  /\ UNCHANGED <<runtime, containerLocks, op, containerCache, cacheInvalidated, now,
                 nextObj, listCalls, list, sub, conn, caller, hook, hist>>

LockNext ==
  \/ \E o \in Ops, k \in OpKinds, i \in ContainerIds : RequestOp(o, k, Named(i))
  \/ \E o \in Ops : InspectReturn(o)
  \/ \E o \in Ops, fail \in BOOLEAN : CallReturn(o, fail)

\* lifecycle requests of every kind on one identifier
QueueNext ==
  \/ \E o \in Ops, k \in OpKinds : RequestOp(o, k, Named("a"))
  \/ \E o \in Ops : InspectReturn(o)
  \/ \E o \in Ops, fail \in BOOLEAN : CallReturn(o, fail)

CacheNext ==
  \/ \E o \in 1..MaxCacheOps, k \in OpKinds, i \in ContainerIds :
       RequestOp(o, k, Named(i))
  \/ \E o \in Ops : InspectReturn(o)
  \/ \E o \in Ops, fail \in BOOLEAN : CallReturn(o, fail)
  \/ \E l \in Lists : ListStart(l)
  \/ \E l \in Lists, fail \in BOOLEAN : ListReturn(l, fail)
  \/ Tick

EventNext ==
  \/ \E s \in Subs : Subscribe(s)
  \/ \E s \in Subs : ClientResolved(s)
  \/ \E s \in Subs, err \in BOOLEAN : StreamOpened(s, err)
  \/ \E s \in Subs : CloseSub(s)
  \/ \E t \in Payloads : RuntimeEvent(t)
  \/ \E s \in Subs : StreamError(s)
  \/ \E l \in Lists : ListStart(l)
  \/ \E l \in Lists, fail \in BOOLEAN : ListReturn(l, fail)

RelayNext ==
  \/ \E s \in Subs : Subscribe(s)
  \/ \E s \in Subs : ClientResolved(s)
  \/ \E s \in Subs, err \in BOOLEAN : StreamOpened(s, err)
  \/ \E s \in Subs : CloseSub(s)
  \/ \E t \in Payloads : RuntimeEvent(t)
  \/ \E s \in Subs : StreamError(s)

\* one /events connection from its request to its close: the heartbeat
\* timer belongs to the connection and no connection touches another's
SseNext ==
  \/ Subscribe(1)
  \/ ClientResolved(1)
  \/ Heartbeat(1)
  \/ \E err \in BOOLEAN : StreamOpened(1, err)
  \/ CloseSub(1)
  \/ \E t \in Payloads : RuntimeEvent(t)
  \/ StreamError(1)

RouteNext ==
  \/ \E o \in 1..MaxRouteOps, k \in OpKinds, x \in Identifiers : RequestOp(o, k, x)
  \/ \E o \in 1..MaxRouteOps, x \in Identifiers : RequestInspect(o, x)
  \/ \E o \in Ops, fail \in BOOLEAN : GetContainerReturn(o, fail)
  \/ \E o \in Ops : InspectReturn(o)
  \/ \E o \in Ops, fail \in BOOLEAN : CallReturn(o, fail)

\* ------------------------------------------------------------ middleware
RequestIds == 1..MaxRequestIds

\* AuthService.validateToken: the payload of a token, null (valid = FALSE)
\* for an unknown or expired one; csrf = "" is a payload without csrf
NoPayload == [valid |-> FALSE, csrf |-> ""]
Tokens == {"t-plain", "t-csrf", "t-expired"}
validateToken(t) ==
  IF t = "t-plain" THEN [valid |-> TRUE, csrf |-> ""]
  ELSE IF t = "t-csrf" THEN [valid |-> TRUE, csrf |-> "c1"]
  ELSE NoPayload

\* the Authorization header (absent, or with or without the 'Bearer '
\* prefix before the token) and the x-csrf-token header ("" : absent)
AuthHeaders ==
  {[present |-> FALSE, bearer |-> FALSE, token |-> ""]}
    \cup [present : {TRUE}, bearer : BOOLEAN, token : Tokens \cup {""}]
AuthRequests == [authorization : AuthHeaders, csrfHeader : {"", "c1", "c2"},
                 id : RequestIds]

\* request.headers.authorization?.replace('Bearer ', '')
TokenOf(h) == IF h.present THEN h.token ELSE ""

\* (variant: an absent x-csrf-token header is let through)
CsrfFailsOnlyIfPresent(payload, header) ==
  payload.csrf # "" /\ header # "" /\ header # payload.csrf

\* `if (payload.csrf)` ... `if (!csrfHeader || csrfHeader !== payload.csrf)`
CsrfFails(payload, header) ==
  payload.csrf # "" /\ (header = "" \/ header # payload.csrf)

\* authenticate: the reply sent (status 0: none) and request.user
AuthDecision(req) ==
  LET token == TokenOf(req.authorization)
      payload == validateToken(token)
      refuse(st, c) == [status |-> st, code |-> c, user |-> NoPayload, requestId |-> req.id]
  IN IF token = "" THEN refuse(401, "AUTHENTICATION_REQUIRED")
     ELSE IF ~payload.valid THEN refuse(401, "INVALID_TOKEN")
     ELSE IF CsrfFails(payload, req.csrfHeader) THEN refuse(403, "CSRF_FAILED")
     ELSE [status |-> 0, code |-> "none", user |-> payload, requestId |-> req.id]

\* the preHandler of every route runs on a request
Authenticate(req) ==
  /\ calc = NoCalc
  /\ calc' = [fn |-> "authenticate", in |-> req, out |-> AuthDecision(req)]
  /\ UNCHANGED <<runtime, containerLocks, op, containerCache, cacheInvalidated, now,
                 nextObj, listCalls, list, sub, conn, caller, hook, hist>>

\* ErrorCode (shared/types.ts)
ErrorCodes == {"CONTAINER_NOT_FOUND", "ALREADY_RUNNING", "ALREADY_STOPPED",
               "PERMISSION_DENIED", "PULL_FAILED", "DOCKER_UNAVAILABLE", "INVALID_INPUT",
               "AUTHENTICATION_REQUIRED", "INVALID_TOKEN", "CSRF_FAILED", "RATE_LIMITED",
               "UNKNOWN_ERROR"}

\* the phrases normalize() searches the lower-cased message for
Phrases == {"not found", "already started", "already running", "not running",
            "already stopped", "cannot connect", "invalid password"}

\* An error as normalize() sees it; detail is the rest of the message, the
\* stack and the raw body.  null / undefined is NoError.
NoError == [null |-> TRUE, statusCode |-> 0, code |-> "none", message |-> {},
            detail |-> "none"]
CaughtErrors ==
  [null : {FALSE}, statusCode : {0, 403, 404, 409, 500},
   code : {"none", "EACCES", "ENOENT"}, message : SUBSET Phrases,
   detail : {"stack-1", "body-2"}]

\* (variant: the generic branch forwards the error's own text)
NormalizeMessageForwards(e, code) ==
  IF code = "UNKNOWN_ERROR" THEN e.detail ELSE "Container not found"

\* the message returned next to each code
NormalizeMessage(e, code) ==
  IF code = "CONTAINER_NOT_FOUND" THEN "Container not found"
  ELSE IF code = "ALREADY_RUNNING" THEN "Container is already running"
  ELSE IF code = "ALREADY_STOPPED" THEN "Container is already stopped"
  ELSE IF code = "PERMISSION_DENIED"
       THEN "Permission denied. Check Docker socket permissions."
  ELSE IF code = "DOCKER_UNAVAILABLE" THEN "Cannot connect to Docker. Is Docker running?"
  ELSE IF code = "AUTHENTICATION_REQUIRED" THEN "Invalid credentials"
  ELSE "An error occurred. Check logs for details."

\* ErrorNormalizer.normalize(error, requestId)
Normalize(e, requestId) ==
  LET code == IF e.null THEN "UNKNOWN_ERROR" ELSE NormalizeCode(e)
  IN [code |-> code, message |-> NormalizeMessage(e, code), requestId |-> requestId]

\* a catch block normalizes the error it caught
NormalizeError(e, requestId) ==
  /\ calc = NoCalc
  /\ calc' = [fn |-> "normalize", in |-> [error |-> e, requestId |-> requestId],
              out |-> Normalize(e, requestId)]
  /\ UNCHANGED <<runtime, containerLocks, op, containerCache, cacheInvalidated, now,
                 nextObj, listCalls, list, sub, conn, caller, hook, hist>>

\* ---------------------------------------------------------------- startup
\* addresses a host option or HARBOURMASTER_HOST can name ("" : not given)
LoopbackHosts == {"127.0.0.1", "localhost", "::1"}
HostValues == LoopbackHosts \cup {"0.0.0.0", "::", "192.168.1.10", ""}

\* how the daemon is started: by harbourmasterd (options host, port,
\* --i-understand-the-risks) or by node index.js; host, port and allow are
\* the options for the cli and the inherited environment for node, allow
\* is the inherited HARBOURMASTER_ALLOW_NETWORK in both
Launches ==
  [via : {"cli"}, host : HostValues, port : {"", "8080"}, flag : BOOLEAN,
   allow : {"", "true", "1"}]
    \cup [via : {"node"}, host : HostValues, port : {"", "8080"}, flag : {FALSE},
          allow : {"", "true", "1"}]

\* `host === '0.0.0.0' || host === '::'`
IsNetworkBind(host) == host \in {"0.0.0.0", "::"}

\* the default action of harbourmasterd: the environment it hands to the
\* server, or exit(1) before the server is spawned
CliAction(l) ==
  LET host == IF l.host = "" THEN "127.0.0.1" ELSE l.host
  IN IF IsNetworkBind(host) /\ ~l.flag
     THEN [exited |-> TRUE, host |-> host, port |-> l.port, allow |-> l.allow]
     ELSE [exited |-> FALSE, host |-> host,
           port |-> IF l.port = "" THEN "9190" ELSE l.port,
           allow |-> IF l.flag THEN "true" ELSE l.allow]

\* parseInt(process.env.HARBOURMASTER_PORT || '9190', 10)
ParsePort(p) == IF p \in {"", "9190"} THEN DefaultPort ELSE 8080

\* getServerConfig in the environment env, then server.listen: the address
\* the server listens on, or exit(1)
getServerConfig(env) ==
  LET host == IF env.host = "" THEN "127.0.0.1" ELSE env.host
      allowNetworkAccess == env.allow = "true"
  IN [listening |-> ~(IsNetworkBind(host) /\ ~allowNetworkAccess), host |-> host,
      port |-> ParsePort(env.port), allowNetworkAccess |-> allowNetworkAccess]

NotStarted == [listening |-> FALSE, host |-> "", port |-> 0, allowNetworkAccess |-> FALSE]

\* the daemon is started
Startup(l) ==
  /\ calc = NoCalc
  /\ calc' = [fn |-> "startup", in |-> l,
              out |-> IF l.via = "node" THEN getServerConfig(l)
                      ELSE IF CliAction(l).exited THEN NotStarted
                      ELSE getServerConfig(CliAction(l))]
  /\ UNCHANGED <<runtime, containerLocks, op, containerCache, cacheInvalidated, now,
                 nextObj, listCalls, list, sub, conn, caller, hook, hist>>

StartupNext == \E l \in Launches : Startup(l)

\* ---------------------------------------------------------- useContainers
\* setupEventSource(): eventSourceRef.current is closed if there is one, a
\* new EventSource is created by apiClient.subscribeToEvents() and stored in
\* the ref
setupEventSource(h) ==
  LET closed == IF h.ref # 0 THEN [h.sources EXCEPT ![h.ref] = "closed"] ELSE h.sources
  IN [h EXCEPT !.sources = Append(closed, "open"), !.ref = Len(h.sources) + 1]

\* the cleanup of the effect: clearTimeout(reconnectTimeoutRef.current) and
\* eventSource.close() on the EventSource the effect's run created
EffectCleanup(h) ==
  [h EXCEPT !.pending = @ \ {h.timerRef},
            !.sources = IF h.effect # 0 THEN [@ EXCEPT ![h.effect] = "closed"] ELSE @]

\* the effect runs: `const eventSource = setupEventSource()`
EffectRun(h) == [setupEventSource(h) EXCEPT !.effect = Len(h.sources) + 1]

\* the component mounts
Mount ==
  /\ hook.pc = "init"
  /\ hook' = [EffectRun(hook) EXCEPT !.pc = "mounted"]
  /\ UNCHANGED <<runtime, containerLocks, op, containerCache, cacheInvalidated, now,
                 nextObj, listCalls, list, sub, conn, caller, calc, hist>>

\* showAll changes: fetchContainers and setupEventSource are new functions,
\* so the effect is cleaned up and run again
Rerender ==
  /\ hook.pc = "mounted"
  /\ Len(hook.sources) < MaxSources
  /\ hook' = [EffectRun(EffectCleanup(hook)) EXCEPT !.showAll = ~@]
  /\ UNCHANGED <<runtime, containerLocks, op, containerCache, cacheInvalidated, now,
                 nextObj, listCalls, list, sub, conn, caller, calc, hist>>

\* handleError of EventSource i: eventSource.close(), the timer held by
\* reconnectTimeoutRef is cleared and a new one is set for 5000 ms
SourceError(i) ==
  /\ i \in 1..Len(hook.sources)
  /\ hook.sources[i] = "open"
  /\ hook' = [hook EXCEPT !.sources[i] = "closed",
                          !.pending = (@ \ {hook.timerRef}) \cup {i},
                          !.timerRef = i, !.delay = ReconnectMs]
  /\ UNCHANGED <<runtime, containerLocks, op, containerCache, cacheInvalidated, now,
                 nextObj, listCalls, list, sub, conn, caller, calc, hist>>

\* the timer set by handleError of EventSource i fires:
\* `if (!eventSource.readyState || eventSource.readyState === CLOSED)
\*    setupEventSource()`
TimerFires(i) ==
  /\ i \in hook.pending
  /\ Len(hook.sources) < MaxSources
  /\ hook' = IF hook.sources[i] = "closed"
             THEN [setupEventSource(hook) EXCEPT !.pending = @ \ {i}]
             ELSE [hook EXCEPT !.pending = @ \ {i}]
  /\ UNCHANGED <<runtime, containerLocks, op, containerCache, cacheInvalidated, now,
                 nextObj, listCalls, list, sub, conn, caller, calc, hist>>

\* the component unmounts: the cleanup of the effect runs
Unmount ==
  /\ hook.pc = "mounted"
  /\ hook' = [EffectCleanup(hook) EXCEPT !.pc = "unmounted"]
  /\ UNCHANGED <<runtime, containerLocks, op, containerCache, cacheInvalidated, now,
                 nextObj, listCalls, list, sub, conn, caller, calc, hist>>

HookNext ==
  \/ Mount
  \/ Rerender
  \/ \E i \in 1..MaxSources : SourceError(i)
  \/ \E i \in 1..MaxSources : TimerFires(i)
  \/ Unmount

AuthNext == \E req \in AuthRequests : Authenticate(req)

ErrorNext == \E e \in CaughtErrors \cup {NoError}, id \in RequestIds : NormalizeError(e, id)

ProjectionNext ==
  \/ \E c \in RawListEntries : ProjectList(c)
  \/ \E info \in RawInspects : ProjectInspect(info)

ConnectNext ==
  \/ \E c \in Callers, k \in CallerKinds : Connect(c, k)
  \/ \E env \in ConnectEnvs : PerformConnectionReturn(env)
  \/ \E c \in Callers, ok \in BOOLEAN : PingReturn(c, ok)

\* the first call on a new service, in an arbitrary environment
ResolveNext ==
  \/ \E k \in CallerKinds : Connect(1, k)
  \/ \E env \in Envs : PerformConnectionReturn(env)
  \/ \E ok \in BOOLEAN : PingReturn(1, ok)

Next ==
  \/ LockNext \/ CacheNext \/ EventNext \/ SseNext \/ RouteNext \/ ConnectNext
  \/ ResolveNext \/ StartupNext \/ HookNext \/ QueueNext
  \/ ProjectionNext \/ AuthNext \/ ErrorNext

\* lifecycle requests only
SpecLock == Init /\ [][LockNext]_vars

\* every runtime call of an operation body is answered: the engine answers
\* container.inspect() and the mutating call of every operation
BodiesSettle ==
  \A o \in Ops :
    /\ WF_vars(InspectReturn(o))
    /\ WF_vars(\E fail \in BOOLEAN : CallReturn(o, fail))

\* callers queued on one identifier whose bodies settle
SpecLockLive == InitCache /\ [][QueueNext]_vars /\ BodiesSettle

\* list requests and the clock next to lifecycle requests
SpecCache == InitCache /\ [][CacheNext]_vars

\* the event relay with several clients next to list requests
SpecEvents == InitCache /\ [][EventNext]_vars

\* the event relay alone
SpecRelay == InitCache /\ [][RelayNext]_vars

\* the identifier-carrying routes with arbitrary identifiers
SpecRoute == InitCache /\ [][RouteNext]_vars

\* the projections of listContainers and getContainer on arbitrary raw records
SpecProjection == InitCache /\ [][ProjectionNext]_vars

\* the endpoint resolution of a new DockerService
SpecResolve == InitConnect /\ [][ResolveNext]_vars

\* one /events connection with its heartbeat timer
SpecSse == InitCache /\ [][SseNext]_vars

\* the start of the daemon with arbitrary options and environment
SpecStartup == InitCache /\ [][StartupNext]_vars

\* one useContainers hook from mount to unmount and after
SpecHook == InitCache /\ [][HookNext]_vars

\* the authenticate preHandler on arbitrary requests
SpecAuth == InitCache /\ [][AuthNext]_vars

\* ErrorNormalizer.normalize on arbitrary errors
SpecErrors == InitCache /\ [][ErrorNext]_vars

\* a DockerService from its construction on
SpecConnect == InitConnect /\ [][ConnectNext]_vars

Spec == Init /\ [][Next]_vars

\* ------------------------------------------------ lock table properties
Executing(o) == op[o].pc \in {"inspect", "call"}
Entered(o) == op[o].entered

\* C1: for every identifier at most one operation body is executing at any
\* instant (no two operations on one identifier have runtime calls in flight)
C1_MutualExclusion ==
  \A o1, o2 \in Ops :
    (o1 # o2 /\ Executing(o1) /\ Executing(o2)) => op[o1].id # op[o2].id

\* C2: an operation that entered withContainerLock behind a pending one and
\* has been answered ran its own body; it was not answered with the error
\* of the operation it waited for
C2_QueuedOpRunsOwnWork ==
  \A o \in Ops : (op[o].pc = "done" /\ Entered(o)) => op[o].ran

\* C3: the entry of an operation is gone once the operation has completed,
\* on success and on failure; an entry always belongs to an executing
\* operation; when no operation is queued or executing the table is empty
C3_NoLockLeak ==
  /\ \A o \in Ops : op[o].pc = "done" => containerLocks[op[o].id] # o
  /\ \A i \in ContainerIds :
       containerLocks[i] # NoOp =>
         (Executing(containerLocks[i]) /\ op[containerLocks[i]].id = i)
  /\ (\A o \in Ops : op[o].pc \in {"idle", "probe", "done"}) =>
       \A i \in ContainerIds : containerLocks[i] = NoOp

\* an operation failed and a later one on the same identifier succeeded,
\* both have been answered
C3_Witness ==
  \E o1, o2 \in Ops :
    /\ op[o1].pc = "done" /\ op[o1].ran /\ op[o1].result # "ok"
    /\ op[o2].pc = "done" /\ op[o2].ran /\ op[o2].result = "ok"
    /\ op[o1].id = op[o2].id /\ o1 < o2
    /\ \A o \in Ops : op[o].pc \in {"idle", "done"}

\* C4: operations on one identifier are served in the order they called
\* withContainerLock: a later one starts only after the earlier one settled
C4_FifoService ==
  \A o1, o2 \in Ops :
    (/\ Entered(o1) /\ Entered(o2) /\ op[o1].id = op[o2].id
     /\ o1 < o2 /\ op[o2].ran) => op[o1].pc = "done"

\* C5: startContainer whose inspect reports the container running, and
\* stopContainer whose inspect reports it not running, issue no mutating
\* runtime call and return success
C5_StartStopIdempotent ==
  \A o \in Ops :
    (\/ op[o].kind = "start" /\ op[o].inspected = "running"
     \/ op[o].kind = "stop" /\ op[o].inspected = "stopped")
    => (op[o].pc = "done" /\ op[o].calls = 0 /\ op[o].result = "ok"
        /\ op[o].status = 200)

C5_Witness ==
  \E o1, o2 \in Ops :
    /\ op[o1].kind = "start" /\ op[o1].inspected = "running" /\ op[o1].pc = "done"
    /\ op[o2].kind = "stop" /\ op[o2].inspected = "stopped" /\ op[o2].pc = "done"

\* C6: deleteContainer whose inspect reports the container running fails
\* with 'Cannot delete running container' and issues no mutating runtime
\* call (neither a remove nor a stop); the container keeps running
C6_DeleteRunningRefused ==
  \A o \in Ops :
    (op[o].kind = "delete" /\ op[o].inspected = "running")
    => (op[o].pc = "done" /\ op[o].calls = 0
        /\ op[o].result = "cannotDeleteRunning" /\ op[o].status # 200)

C6_Witness ==
  \E o \in Ops :
    /\ op[o].kind = "delete" /\ op[o].inspected = "running" /\ op[o].pc = "done"
    /\ runtime[op[o].id] = "running"

\* ------------------------------------------------ list cache properties
\* the step in which the handler of list request l runs
ListStarts(l) == list[l].pc = "idle" /\ list'[l].pc # "idle"

\* C7: a list request is answered from the cache exactly when the validity
\* flag is set and the entry is younger than 1000 ms; it then issues no
\* runtime listing call and returns the identical object that the request
\* which filled the cache returned; otherwise (invalid, absent or 1000 ms
\* old) it issues exactly one runtime listing call
C7_CacheFreshness ==
  [][\A l \in Lists :
       /\ ListStarts(l) =>
            IF /\ ~cacheInvalidated
               /\ containerCache # NoCache
               /\ now - containerCache.timestamp < 1000
            THEN /\ list'[l].served = "cache"
                 /\ list'[l].pc = "done" /\ list'[l].status = 200
                 /\ listCalls' = listCalls
                 /\ \E l0 \in Lists : /\ list[l0].served = "runtime"
                                      /\ list[l0].status = 200
                                      /\ list[l0].resp = list'[l].resp
            ELSE /\ list'[l].served = "runtime"
                 /\ list'[l].pc = "listing"
                 /\ listCalls' = listCalls + 1
       /\ (list[l].pc = "listing" /\ list'[l].pc = "done") => listCalls' = listCalls
    ]_vars

\* one request filled the cache, a second one got the same object from the
\* cache, a third one has just found the valid entry 1000 ms old and asked
\* the runtime
C7_Witness ==
  \E l1, l2, l3 \in Lists :
    /\ list[l1].served = "runtime" /\ list[l1].status = 200
    /\ list[l2].served = "cache" /\ list[l2].resp = list[l1].resp
    /\ list[l3].pc = "listing"
    /\ ~cacheInvalidated /\ containerCache.data = list[l1].resp
    /\ now - containerCache.timestamp >= 1000
    /\ listCalls = 2

\* C8: every container-scoped event the runtime emits sets cacheInvalidated
\* at once, and the next list request after it asks the runtime
C8_EventInvalidates ==
  [][/\ RuntimeEvent("container") => cacheInvalidated'
     /\ \A l \in Lists : (ListStarts(l) /\ hist.eventSince) => list'[l].served = "runtime"
    ]_vars

\* C9: every successful mutating request sets cacheInvalidated, and the
\* next list request after it asks the runtime
C9_MutationInvalidates ==
  [][/\ \A o \in Ops : (op[o].pc # "done" /\ op'[o].pc = "done" /\ op'[o].status = 200)
                         => cacheInvalidated'
     /\ \A l \in Lists : (ListStarts(l) /\ hist.mutatedSince) => list'[l].served = "runtime"
    ]_vars

\* C10: at most one upstream event stream is open at any instant
C10_SingleUpstream == Cardinality({s \in Subs : sub[s].upstream = "open"}) <= 1

\* --------------------------------------------------- connection properties
\* C11: connect() shares the resolution in flight: while it is pending,
\* exactly one performConnection has been started and every suspended caller
\* holds its promise; at most one Docker client is ever constructed and
\* every caller that was given a client was given that one
C11_ConnectShared ==
  /\ conn.clients <= 1
  /\ conn.connectionPromise = "pending" => conn.performs = 1
  /\ \A c \in Callers :
       /\ caller[c].pc = "await" => conn.connectionPromise = "pending"
       /\ caller[c].client # NoClient => (caller[c].client = conn.docker /\ conn.clients = 1)

\* one caller started the resolution, a second one joined it while it was
\* pending, a third one called after it; all three hold the same client
C11_Witness ==
  \E c1, c2, c3 \in Callers :
    /\ caller[c1].found = "null" /\ caller[c2].found = "pending"
    /\ caller[c3].found = "client"
    /\ caller[c1].client = conn.docker /\ caller[c2].client = conn.docker
    /\ caller[c3].client = conn.docker /\ conn.docker # NoClient

\* C12: performConnection runs at most once in the life of the service; a
\* failed resolution is terminal: the rejected promise stays, and every later
\* call fails without another run
C12_ResolveOnce ==
  [][/\ conn'.performs <= 1
     /\ conn.connectionPromise = "rejected" =>
          /\ conn' = conn
          /\ \A c \in Callers :
               (caller[c].pc = "idle" /\ caller'[c].pc # "idle") =>
                 (caller'[c].pc = "done" /\ caller'[c].outcome \in {"error", "false"})
    ]_vars

\* the resolution failed and a connect() called afterwards has failed too
C12_Witness ==
  \E c \in Callers :
    /\ caller[c].kind = "connect" /\ caller[c].found = "rejected"
    /\ caller[c].outcome = "error"
    /\ conn.performs = 1 /\ conn.clients = 0

\* C13: healthCheck() never starts the endpoint resolution, and it returns
\* true or false instead of throwing, true only after a successful ping
C13_HealthCheckProbesOnly ==
  /\ conn.by # "healthCheck"
  /\ \A c \in Callers :
       (caller[c].kind = "healthCheck" /\ caller[c].pc = "done") =>
         /\ caller[c].outcome \in {"true", "false"}
         /\ caller[c].outcome = "true" => caller[c].client # NoClient

\* -------------------------------------------------------- route properties
\* C14: getContainer returns null, without throwing, when the engine answers
\* 404 for the identifier (the route answers 404); every other engine
\* failure is propagated to the caller (the route answers 500)
C14_GetContainerNullOn404 ==
  \A o \in Ops :
    (op[o].kind = "inspect" /\ op[o].pc = "done" /\ op[o].svc > 0) =>
      /\ op[o].inspected = "absent" => (op[o].result = "null" /\ op[o].status = 404)
      /\ op[o].inspected = "error" => (op[o].result = "runtimeError" /\ op[o].status = 500)
      /\ op[o].inspected \in {"running", "stopped"} =>
           (op[o].result = "container" /\ op[o].status = 200)

\* a well-formed identifier the engine does not know has been answered with
\* null / 404
C14_Witness ==
  \E o \in Ops :
    /\ op[o].kind = "inspect" /\ op[o].pc = "done" /\ op[o].id = "none"
    /\ op[o].inspected = "absent" /\ op[o].result = "null"

\* C15: on every identifier-carrying route (inspect, start, stop, restart,
\* delete) an identifier that is neither 12 to 64 hexadecimal digits nor a
\* name [A-Za-z0-9][A-Za-z0-9_.-]{0,127} is answered 400 / INVALID_INPUT and
\* no DockerService method is called
C15_ValidationGate ==
  \A o \in Ops :
    LET x == op[o].ident
        hexId == /\ x.len \in 12..64 /\ x.first = "hex" /\ x.rest \subseteq {"hex"}
        name == /\ x.len \in 1..128 /\ x.first \in {"hex", "alnum"}
                /\ x.rest \subseteq {"hex", "alnum", "punct"}
    IN (op[o].pc # "idle" /\ ~hexId /\ ~name) =>
         /\ op[o].pc = "done" /\ op[o].status = 400 /\ op[o].code = "INVALID_INPUT"
         /\ op[o].svc = 0 /\ op[o].calls = 0 /\ ~op[o].entered

\* a delete whose identifier is a 129-character name has been answered 400
C15_Witness ==
  \E o \in Ops :
    /\ op[o].kind = "delete" /\ op[o].pc = "done" /\ op[o].status = 400
    /\ op[o].ident.len = 129 /\ op[o].ident.first = "alnum"
    /\ op[o].ident.rest = {"hex", "alnum", "punct"}

\* C16: a mutating request for which the engine reported the identifier
\* absent, at the probe or inside the locked operation, is answered 404 with
\* code CONTAINER_NOT_FOUND
C16_NotFoundMapping ==
  \A o \in Ops :
    (op[o].kind \in OpKinds /\ op[o].pc = "done" /\ op[o].result \in {"notFound", "raw404"})
      => (op[o].status = 404 /\ op[o].code = "CONTAINER_NOT_FOUND")

\* C17: a delete refused because the container is running is answered 409
\* with a code of its own, not 500 / UNKNOWN_ERROR
C17_DeleteRunningIs409 ==
  \A o \in Ops :
    (op[o].pc = "done" /\ op[o].result = "cannotDeleteRunning")
      => (op[o].status = 409 /\ op[o].code # "UNKNOWN_ERROR")

\* C18 as stated: a request refused for its identifier or because it would
\* delete a running container has created no lock entry and issued no
\* mutating runtime call
C18_FailFastBeforeLock ==
  \A o \in Ops :
    (op[o].status = 400 \/ op[o].result = "cannotDeleteRunning")
      => (~op[o].entered /\ op[o].calls = 0)

\* C18: an invalid identifier is refused before any DockerService method is
\* called, so before any lock entry and any runtime call; a delete of a
\* running container is refused inside the locked operation, after its lock
\* entry was created, and before any mutating runtime call
C18_FailFast ==
  \A o \in Ops :
    LET x == op[o].ident
        wellFormed ==
          \/ x.len \in 12..64 /\ x.first = "hex" /\ x.rest \subseteq {"hex"}
          \/ /\ x.len \in 1..128 /\ x.first \in {"hex", "alnum"}
             /\ x.rest \subseteq {"hex", "alnum", "punct"}
    IN /\ (op[o].pc # "idle" /\ ~wellFormed) =>
            (op[o].svc = 0 /\ ~op[o].entered /\ ~op[o].ran /\ op[o].calls = 0
             /\ \A i \in ContainerIds : containerLocks[i] # o)
       /\ (op[o].kind = "delete" /\ op[o].inspected = "running") =>
            (op[o].entered /\ op[o].ran /\ op[o].calls = 0 /\ op[o].pc = "done")

\* a delete of the running container has been refused after it entered
\* withContainerLock
C18_Witness ==
  \E o \in Ops :
    /\ op[o].kind = "delete" /\ op[o].result = "cannotDeleteRunning"
    /\ op[o].entered /\ op[o].ran /\ op[o].calls = 0 /\ op[o].status = 500

\* -------------------------------------------------- event relay properties
\* C19: a chunk that is not valid JSON is logged and skipped and leaves the
\* stream open; every well-formed event, also one after a malformed chunk,
\* is handed to the callback of every open subscription
C19_MalformedSkipped ==
  [][\A t \in Payloads :
       RuntimeEvent(t) =>
         \A s \in Subs :
           sub[s].stream = "open" =>
             /\ sub'[s].stream = "open" /\ sub'[s].pc = sub[s].pc
             /\ sub'[s].upstream = sub[s].upstream
             /\ IF t = "malformed"
                THEN sub'[s].delivered = sub[s].delivered
                ELSE sub'[s].delivered = sub[s].delivered + 1
    ]_vars

\* a subscription skipped a malformed chunk and has delivered the event
\* that came after it
C19_Witness ==
  \E s \in Subs :
    /\ sub[s].skipped >= 1 /\ sub[s].lastData = "event" /\ sub[s].delivered >= 1
    /\ sub[s].stream = "open"

\* C20: a subscription whose stream failed to open, or failed after it was
\* opened, has had the failure reported to its subscriber exactly once
C20_StreamFailureReported ==
  \A s \in Subs : sub[s].pc = "failed" => sub[s].errors = 1

\* C21: once cleanup() has been called, no chunk the engine emits afterwards
\* reaches the subscriber's callback, whether cleanup() came before the
\* client was resolved, before the stream was delivered, or on an open stream
C21_UnsubscribeImmediate ==
  [][\A s \in Subs :
       sub[s].cancelled =>
         (sub'[s].cancelled /\ sub'[s].delivered = sub[s].delivered
          /\ sub'[s].stream # "open")
    ]_vars

\* one subscription was cancelled while its stream was open, another before
\* its stream was delivered, and the engine has emitted a chunk since
C21_Witness ==
  \E s1, s2 \in Subs :
    /\ sub[s1].cancelled /\ sub[s1].stream = "destroyed"
    /\ sub[s2].cancelled /\ sub[s2].stream = "null" /\ sub[s2].upstream = "open"
    /\ sub[s1].cancelledAt < hist.events /\ sub[s2].cancelledAt < hist.events
    /\ sub[s1].delivered <= sub[s1].cancelledAt /\ sub[s2].delivered = 0

\* C22: an open /events connection has a heartbeat timer of 30 s; once the
\* connection is closed the timer is cleared and the subscription released:
\* no heartbeat and no event is written to it afterwards
C22_SseLifecycle ==
  [][\A s \in Subs :
       /\ (sub'[s].pc # "none" /\ ~sub'[s].cancelled) => sub'[s].interval = 30000
       /\ sub[s].cancelled =>
            /\ sub'[s].interval = 0 /\ sub'[s].stream # "open"
            /\ sub'[s].beats = sub[s].beats /\ sub'[s].delivered = sub[s].delivered
    ]_vars

\* a connection got a heartbeat and an event, was closed, and the engine
\* has emitted a chunk since
C22_Witness ==
  \E s \in Subs :
    /\ sub[s].beats >= 1 /\ sub[s].delivered >= 1 /\ sub[s].cancelled
    /\ sub[s].interval = 0 /\ sub[s].cancelledAt < hist.events

\* ---------------------------------------------------- projection properties
\* C23: the state of every Container built by list or inspect is one of
\* running, exited, paused, restarting, dead in lower case; an unrecognized
\* or missing raw state gives exited
C23_StateClosedSet ==
  calc.fn \in {"list", "inspect"} =>
    LET raw == IF calc.fn = "list" THEN calc.in.State ELSE calc.in.Status
    IN /\ calc.out.state.word \in ContainerStates /\ ~calc.out.state.upper
       /\ raw.word \in ContainerStates => calc.out.state.word = raw.word
       /\ raw.word \notin ContainerStates => calc.out.state.word = "exited"

\* C24: no name of a Container built by list or inspect starts with '/'
C24_NamesStripped ==
  calc.fn \in {"list", "inspect"} =>
    \A i \in 1..Len(calc.out.names) : ~calc.out.names[i].slash

\* C25: every container port of the raw record has an entry in the projected
\* port list, one per host binding, and exactly one with public = null when
\* it has no host binding; no public port is undefined
C25_PortFlattening ==
  /\ calc.fn = "list" =>
       /\ Len(calc.out.ports) = (IF calc.in.Ports.present THEN Len(calc.in.Ports.items) ELSE 0)
       /\ \A i \in 1..Len(calc.out.ports) :
            /\ calc.out.ports[i].private = calc.in.Ports.items[i].PrivatePort
            /\ calc.out.ports[i].public # Undefined
            /\ calc.in.Ports.items[i].PublicPort = Undefined => calc.out.ports[i].public = Null
  /\ calc.fn = "inspect" =>
       /\ \A i \in 1..Len(calc.out.ports) : calc.out.ports[i].public # Undefined
       /\ calc.in.Ports.present =>
            \A k \in 1..Len(PortKeys) :
              LET b == calc.in.Ports.of[k]
                  mine == {i \in 1..Len(calc.out.ports) :
                             /\ calc.out.ports[i].private = PortKeys[k].port
                             /\ calc.out.ports[i].type = PortKeys[k].proto}
              IN b.kind # "absent" =>
                   IF b.kind = "array" /\ Len(b.items) > 0
                   THEN Cardinality(mine) = Len(b.items)
                   ELSE /\ Cardinality(mine) = 1
                        /\ \A i \in mine : calc.out.ports[i].public = Null

\* --------------------------------------------------- resolution properties
\* C26: with DOCKER_HOST set the resolution succeeds with the endpoint tagged
\* 'DOCKER_HOST', no socket path is tested and no subprocess is run
C26_OverrideUsed ==
  (conn.performs > 0 /\ conn.connectionPromise # "pending" /\ conn.env.dockerHost) =>
    /\ conn.docker # NoClient /\ conn.detectedSocket = "DOCKER_HOST"
    /\ conn.probed = <<>> /\ conn.subprocess = 0 /\ conn.error = "none"

\* DOCKER_HOST was set while sockets existed, and a caller holds the client
C26_Witness ==
  /\ conn.env.dockerHost /\ conn.env.sockets # {} /\ conn.detectedSocket = "DOCKER_HOST"
  /\ \E c \in Callers : caller[c].client = conn.docker /\ conn.docker # NoClient

\* C27: without DOCKER_HOST the socket paths are tested in the order of the
\* array up to the first one that exists, which is the endpoint; the
\* subprocess runs only when none exists; when it fails, prints what cannot
\* be parsed or names no endpoint, the resolution fails with the 'Docker
\* socket not found' message that names DOCKER_HOST
C27_SocketOrder ==
  (conn.performs > 0 /\ conn.connectionPromise # "pending" /\ ~conn.env.dockerHost) =>
    LET exist == {i \in 1..5 : SocketPaths[i] \in conn.env.sockets}
    IN IF exist # {}
       THEN \E k \in exist :
              /\ \A j \in exist : k <= j
              /\ conn.probed = [i \in 1..k |-> i]
              /\ conn.detectedSocket = SocketPaths[k]
              /\ conn.subprocess = 0 /\ conn.docker # NoClient
       ELSE /\ conn.probed = <<1, 2, 3, 4, 5>> /\ conn.subprocess = 1
            /\ conn.env.context \in {"fails", "unparsable", "noEndpoint"} =>
                 /\ conn.docker = NoClient /\ conn.connectionPromise = "rejected"
                 /\ conn.error =
                      "Docker socket not found. Is Docker running? Try: docker info Or set DOCKER_HOST environment variable"

\* only the third and the fifth path existed and the third was taken
C27_Witness ==
  /\ ~conn.env.dockerHost
  /\ conn.env.sockets = {SocketPaths[3], SocketPaths[5]}
  /\ conn.detectedSocket = SocketPaths[3] /\ conn.probed = <<1, 2, 3>>
  /\ conn.docker # NoClient

\* C28: every restartContainer that was invoked and has been served has
\* issued container.restart with a grace period of 10 s, without an inspect
C28_RestartAlwaysCalls ==
  \A o \in Ops :
    (op[o].kind = "restart" /\ op[o].entered /\ op[o].pc \in {"call", "done"}) =>
      (op[o].calls = 1 /\ op[o].grace = 10 /\ op[o].inspected = "none")

\* --------------------------------------------------- middleware properties
\* C29: authenticate answers 401 AUTHENTICATION_REQUIRED without a token,
\* 401 INVALID_TOKEN for a token validateToken rejects, 403 CSRF_FAILED for
\* a payload with a csrf value whose x-csrf-token header is absent or
\* different; otherwise it sends nothing and sets request.user to the
\* payload; request.user is set in that case only
C29_AuthDecisionTable ==
  calc.fn = "authenticate" =>
    LET h == calc.in.authorization
        token == IF h.present THEN h.token ELSE ""
        payload == validateToken(token)
        out == calc.out
    IN /\ token = "" => (out.status = 401 /\ out.code = "AUTHENTICATION_REQUIRED")
       /\ (token # "" /\ ~payload.valid) => (out.status = 401 /\ out.code = "INVALID_TOKEN")
       /\ (token # "" /\ payload.valid /\ payload.csrf # ""
           /\ calc.in.csrfHeader # payload.csrf)
            => (out.status = 403 /\ out.code = "CSRF_FAILED")
       /\ (token # "" /\ payload.valid
           /\ (payload.csrf = "" \/ calc.in.csrfHeader = payload.csrf))
            => (out.status = 0 /\ out.user = payload)
       /\ out.user.valid <=> out.status = 0

\* a payload with a csrf value and no x-csrf-token header was answered 403
C29_Witness ==
  /\ calc.fn = "authenticate" /\ calc.in.authorization.token = "t-csrf"
  /\ calc.in.csrfHeader = "" /\ calc.out.status = 403 /\ ~calc.out.user.valid

\* C30: normalize returns a code of ErrorCode, one of seven constant
\* messages whatever the text, stack or body of the error (also for null),
\* and the requestId it was given
C30_NoInternalDetail ==
  calc.fn = "normalize" =>
    /\ calc.out.code \in ErrorCodes
    /\ calc.out.message \in
         {"Container not found", "Container is already running",
          "Container is already stopped",
          "Permission denied. Check Docker socket permissions.",
          "Cannot connect to Docker. Is Docker running?", "Invalid credentials",
          "An error occurred. Check logs for details."}
    /\ calc.out.requestId = calc.in.requestId
    /\ DOMAIN calc.out = {"code", "message", "requestId"}
    /\ \A d \in {"stack-1", "body-2"} :
         Normalize([calc.in.error EXCEPT !.detail = d], calc.in.requestId) = calc.out

\* an error with nothing normalize recognizes got the generic message
C30_Witness ==
  /\ calc.fn = "normalize" /\ ~calc.in.error.null /\ calc.in.error.statusCode = 500
  /\ calc.in.error.message = {} /\ calc.in.error.detail = "stack-1"
  /\ calc.out.code = "UNKNOWN_ERROR"
  /\ calc.out.message = "An error occurred. Check logs for details."

\* ------------------------------------------------------ startup properties
\* C31: with no host configured the daemon listens on 127.0.0.1; it listens
\* on an address that is not a loopback address only if network access was
\* enabled (HARBOURMASTER_ALLOW_NETWORK=true or --i-understand-the-risks);
\* with host 0.0.0.0 and no such flag it never listens
C31_LocalhostByDefault ==
  calc.fn = "startup" =>
    LET enabled == calc.in.allow = "true" \/ calc.in.flag
    IN /\ calc.in.host = "" => (calc.out.listening /\ calc.out.host = "127.0.0.1")
       /\ (calc.out.listening /\ calc.out.host \notin {"127.0.0.1", "localhost", "::1"})
            => enabled
       /\ (calc.in.host = "0.0.0.0" /\ ~enabled) => ~calc.out.listening

\* ------------------------------------------------- lock table, continued
\* C32: while the body of an operation on an identifier is executing the
\* table holds an entry for that identifier, and an entry is removed only
\* by the completion of the operation it belongs to
C32_LockOccupancy ==
  /\ [](\A o \in Ops : Executing(o) => containerLocks[op[o].id] # NoOp)
  /\ [][\A i \in ContainerIds :
          (containerLocks[i] # NoOp /\ containerLocks'[i] = NoOp) =>
            (op'[containerLocks[i]].pc = "done")
       ]_vars

\* the operations that called withContainerLock for identifier i
EnteredOn(i) == {o \in Ops : Entered(o) /\ op[o].id = i}

\* all operations on i so far are k >= 2 calls of one kind, all answered;
\* the first found the container in state st and its runtime call succeeded
SameKindBatch(i, kind, st) ==
  /\ Cardinality(EnteredOn(i)) >= 2
  /\ \A o \in EnteredOn(i) : op[o].kind = kind /\ op[o].pc = "done"
  /\ \E f \in EnteredOn(i) :
       /\ \A o \in EnteredOn(i) : f <= o
       /\ op[f].inspected = st /\ op[f].calls = 1 /\ op[f].result = "ok"

\* exactly one of them issued a runtime call, the others saw state st and
\* returned without one
OneMutatingCall(i, st) ==
  /\ Cardinality({o \in EnteredOn(i) : op[o].calls = 1}) = 1
  /\ \A o \in EnteredOn(i) :
       op[o].calls = 0 => (op[o].ran /\ op[o].inspected = st /\ op[o].result = "ok")

ListAnswers(l) == list[l].pc = "listing" /\ list'[l].pc = "done"

\* C34: a list request whose listing call was in flight when a mutating
\* request completed successfully does not leave the cache valid with the
\* data of that call (hist.mutatedSince: a mutation completed after the
\* latest listing call was issued)
C34_NoStaleValid ==
  [][\A l \in Lists :
       (ListAnswers(l) /\ list'[l].status = 200 /\ hist.mutatedSince) =>
         ~(~cacheInvalidated' /\ containerCache' # NoCache
           /\ containerCache'.data = list'[l].resp)
    ]_vars

C36_NoUpstreamLeak ==
  \A s \in Subs : sub[s].cancelled => sub[s].upstream # "open"

\* ---------------------------------------------------- UI hook properties
\* after the unmount no EventSource of the hook is open and no reconnect
\* timer is pending
CleanAfterUnmount ==
  hook.pc = "unmounted" =>
    /\ \A i \in 1..Len(hook.sources) : hook.sources[i] # "open"
    /\ hook.pending = {}

\* an error closes the failed EventSource and leaves exactly one reconnect
\* timer pending, set for 5000 ms
ErrorSchedulesOne ==
  \A i \in 1..MaxSources :
    SourceError(i) =>
      /\ hook'.sources[i] = "closed"
      /\ hook'.pending = {i} /\ hook'.delay = 5000

\* C37: after an SSE error the hook closes the failed EventSource and
\* schedules at most one reconnect 5 s later; after the unmount no
\* EventSource it created is open and no reconnect timer is pending, also
\* when errors led to reconnects before the unmount
C37_ReconnectHygiene == [][ErrorSchedulesOne]_vars /\ []CleanAfterUnmount

\* --------------------------------------------- lock table, independence
\* the step in which operation o calls withContainerLock
Enters(o) == ~op[o].entered /\ op'[o].entered

\* the step in which the body of operation o settles
Completes(o) == Executing(o) /\ op'[o].pc = "done"

\* C38: an operation starts its body at once unless an operation on its own
\* identifier is pending, whatever is pending or queued on other
\* identifiers; the completion of an operation leaves the entries of the
\* other identifiers and the operations on them as they were
C38_Independence ==
  [][\A o \in Ops :
       /\ Enters(o) =>
            IF containerLocks[op'[o].id] = NoOp
            THEN op'[o].ran /\ op'[o].pc \in {"inspect", "call"}
            ELSE op'[o].pc = "waiting" /\ op[op'[o].awaits].id = op'[o].id
       /\ (Enters(o) \/ Completes(o)) =>
            /\ \A i \in ContainerIds \ {op'[o].id} : containerLocks'[i] = containerLocks[i]
            /\ \A w \in Ops : (op[w].entered /\ op[w].id # op'[o].id) => op'[w] = op[w]
    ]_vars

\* an operation on one identifier is executing with another queued behind
\* it, and an operation that arrived later on the other identifier has
\* completed
C38_Witness ==
  \E o1, o2, o3 \in Ops :
    /\ o1 < o2 /\ o2 < o3
    /\ op[o1].id = op[o2].id /\ op[o3].id # op[o1].id
    /\ Executing(o1) /\ op[o2].pc = "waiting" /\ op[o2].awaits = o1
    /\ op[o3].entered /\ op[o3].ran /\ op[o3].pc = "done"
    /\ containerLocks[op[o1].id] = o1 /\ containerLocks[op[o3].id] = NoOp

\* ------------------------------------------------------- lock liveness
\* C39: when every operation body settles, every caller of
\* withContainerLock is eventually answered with a result or an error
C39_LockLiveness ==
  \A o \in Ops : (op[o].entered ~> op[o].pc = "done")

\* two callers were queued behind a third on one identifier; the first
\* failed or succeeded, and all three have been answered, not all alike
C39_Witness ==
  /\ op[1].id = op[2].id /\ op[2].id = op[3].id
  /\ op[2].awaits = 1 /\ op[3].awaits = 1
  /\ \A o \in {1, 2, 3} : op[o].entered /\ op[o].pc = "done"
  /\ op[1].result = "ok" /\ op[2].result # "ok" /\ op[3].result = "ok"

====
